---- MODULE Spec2Model ----
(***************************************************************************)
(* Model of minecraft-modSide-analyzer.py: the archive metadata reader,    *)
(* the side classifier, the Modrinth catalog matcher and the asyncio       *)
(* orchestrator ModAnalyzerThread.analyze_mods / process_jar_with_sem.     *)
(*                                                                         *)
(* Python strings are sequences of one-character strings, so that          *)
(* str.lower, str.endswith, the "in" substring test, str.splitlines,       *)
(* sorted(key=...) and difflib's ratio are computed, not assumed.          *)
(* None is the one-element sequence <<"None">>, which is no string.        *)
(***************************************************************************)
EXTENDS Integers, Sequences, FiniteSets, TLC

VARIABLES
    \* ---- pure-function harness: read_metadata / classify
    c_pc, c_jar, c_meta, c_error, c_category,
    \* ---- pure-function harness: modrinth_link
    m_pc, m_meta, m_resp, m_link,
    \* ---- ModAnalyzerThread
    jars,         \* list(self.mods_dir.glob("*.jar")), in the directory's order
    max_threads,  \* self.max_threads
    gen_log,      \* self.gen_log
    gen_folder,   \* self.gen_folder
    orch,         \* position of analyze_mods: "idle", "gather", "done", "aborted"
    sem_value,    \* sem._value
    waiters,      \* sem._waiters: tasks whose future is still in the deque
    tpc,          \* position of each process_jar_with_sem task
    all_mods,     \* self.all_mods
    log,          \* log_signal emissions
    mod_out,      \* mod_signal emissions
    progress,     \* update_progress emissions
    copied,       \* files copied into the category folders
    report,       \* the lines of the log file, or NoReport
    finished,     \* finished_dir emitted
    faults        \* number of tasks that raised out of their body

cvars == <<c_pc, c_jar, c_meta, c_error, c_category>>
mvars == <<m_pc, m_meta, m_resp, m_link>>
ovars == <<jars, max_threads, gen_log, gen_folder, orch, sem_value, waiters, tpc,
           all_mods, log, mod_out, progress, copied, report, finished, faults>>
vars == <<cvars, mvars, ovars>>

----------------------------------------------------------------------------
(* Strings *)

None == <<"None">>

UpperCase == <<"A","B","C","D","E","F","G","H","I","J","K","L","M",
               "N","O","P","Q","R","S","T","U","V","W","X","Y","Z">>
LowerCase == <<"a","b","c","d","e","f","g","h","i","j","k","l","m",
               "n","o","p","q","r","s","t","u","v","w","x","y","z">>
\* the characters the model uses, in code-point order
CodeOrder == <<"\n", " ", "#", "-", ".", "0", "1", "=">> \o UpperCase \o LowerCase

Ord(c) == CHOOSE i \in 1..Len(CodeOrder) : CodeOrder[i] = c

LowerChar(c) ==
    IF \E i \in 1..Len(UpperCase) : UpperCase[i] = c
    THEN LowerCase[CHOOSE i \in 1..Len(UpperCase) : UpperCase[i] = c]
    ELSE c

\* str.lower()
Lower(s) == [i \in 1..Len(s) |-> LowerChar(s[i])]

\* s.endswith(suffix)
EndsWith(s, suffix) ==
    /\ Len(s) >= Len(suffix)
    /\ SubSeq(s, Len(s) - Len(suffix) + 1, Len(s)) = suffix

\* needle in s
Contains(s, needle) ==
    \E i \in 1..(Len(s) - Len(needle) + 1) : SubSeq(s, i, i + Len(needle) - 1) = needle

\* a < b for str
StrLess(a, b) ==
    \/ /\ Len(a) < Len(b)
       /\ \A i \in 1..Len(a) : a[i] = b[i]
    \/ \E i \in 1..Len(a) :
          /\ i <= Len(b)
          /\ \A j \in 1..(i - 1) : a[j] = b[j]
          /\ Ord(a[i]) < Ord(b[i])

\* the line boundaries of str.splitlines() among the model's characters
LineBreaks == {"\n", "\r"}

\* text.splitlines()
RECURSIVE SplitLines(_)
SplitLines(text) ==
    IF text = <<>> THEN <<>>
    ELSE IF \E i \in 1..Len(text) : text[i] \in LineBreaks
    THEN LET i == CHOOSE k \in 1..Len(text) :
                     /\ text[k] \in LineBreaks
                     /\ \A j \in 1..(k - 1) : text[j] \notin LineBreaks
             crlf == /\ text[i] = "\r"
                     /\ i < Len(text)
                     /\ text[i + 1] = "\n"
             next == IF crlf THEN i + 2 ELSE i + 1
         IN  <<SubSeq(text, 1, i - 1)>> \o SplitLines(SubSeq(text, next, Len(text)))
    ELSE <<text>>

\* truth value of a str-or-None value
Truthy(v) == v # None /\ v # <<>>

\* d.get(k, default)
DictGet(d, k, default) == IF k \in DOMAIN d THEN d[k] ELSE default

----------------------------------------------------------------------------
(* Archive metadata reader and side classifier *)

S_fabric == <<"f","a","b","r","i","c">>
S_forge == <<"f","o","r","g","e">>
S_quilt == <<"q","u","i","l","t">>
S_client == <<"c","l","i","e","n","t">>
S_Client == <<"C","l","i","e","n","t">>
S_server == <<"s","e","r","v","e","r">>
S_star == <<"*">>
S_clientOnly == <<"c","l","i","e","n","t","O","n","l","y">>
S_true == <<"t","r","u","e">>
S_fabric_mod_json == <<"f","a","b","r","i","c",".","m","o","d",".","j","s","o","n">>
S_mods_toml == <<"m","o","d","s",".","t","o","m","l">>
S_jar == <<".","j","a","r">>

\* the three categories: "服务端", "仅客户端", "解析失败"
CatServer == "ServerCapable"
CatClient == "ClientOnly"
CatFail == "Unparseable"
Categories == {CatServer, CatClient, CatFail}

\* the diagnostics of read_metadata (glosses of the source's messages)
ERR_FABRIC == <<"f","a","b","r","i","c",".","m","o","d",".","j","s","o","n"," ","p","a","r","s","e"," ","f","a","i","l","e","d">>
ERR_NO_MANIFEST == <<"n","o"," ","m","o","d","s",".","t","o","m","l"," ","o","r"," ","f","a","b","r","i","c",".","m","o","d",".","j","s","o","n">>
ERR_BAD_ZIP == <<"F","i","l","e"," ","i","s"," ","n","o","t"," ","a"," ","z","i","p"," ","f","i","l","e">>
ERR_NOT_OBJECT == <<"'","l","i","s","t","'"," ","o","b","j","e","c","t"," ","h","a","s"," ","n","o"," ","a","t","t","r","i","b","u","t","e"," ","'","g","e","t","'">>

\* the value of a name bound to None instead of a dict
MetaNone == [isNone |-> TRUE]
IsNoMeta(meta) == "isNone" \in DOMAIN meta

\* jar.stem and jar.name of an archive path
Stem(jar) == jar.stem
JarName(jar) == jar.stem \o S_jar

(* An archive is [stem, readable, entries]; an entry of z.infolist() is      *)
(* [filename, text, json], text being the decoded content and json what     *)
(* json.loads(clean_json(text)) makes of it: kind "invalid" (it raises),    *)
(* "array" (a JSON value that is no object) or "object" with obj the        *)
(* parsed members.                                                          *)
(* parse_fabric(text, jar_name) returns [exc, ret]: exc is the message of   *)
(* the exception that leaves the function, or None.                         *)
parse_fabric(doc, jar_name) ==
    IF doc.kind = "invalid" THEN [exc |-> None, ret |-> MetaNone]
    ELSE IF doc.kind # "object" THEN [exc |-> ERR_NOT_OBJECT, ret |-> MetaNone]
    ELSE LET data == doc.obj
             env == DictGet(data, "environment", S_star)
             mod_id == DictGet(data, "id", None)
             mod_name == IF Truthy(DictGet(data, "name", None))
                         THEN data["name"] ELSE jar_name
             icon == DictGet(data, "icon", None)
         IN  [exc |-> None,
              ret |-> [loader |-> S_fabric, id |-> mod_id, name |-> mod_name,
                       env |-> env, icon |-> icon]]


\* mutant: "true" is looked for as written
HasTrueExact(line) == Contains(line, S_true)

\* "true" in line.lower()
HasTrueLower(line) == Contains(Lower(line), S_true)

\* parse_forge(text, jar_name)
parse_forge(text, jar_name) ==
    LET lines == SplitLines(text)
        client_only == \E i \in 1..Len(lines) :
                           Contains(lines[i], S_clientOnly) /\ HasTrueLower(lines[i])
    IN  [loader |-> S_forge, client_only |-> client_only, id |-> None,
         name |-> jar_name, icon |-> None]

\* the first entry of z.infolist() that read_metadata returns from, or 0
FirstManifest(entries) ==
    LET hit(i) == \/ EndsWith(entries[i].filename, S_fabric_mod_json)
                  \/ EndsWith(entries[i].filename, S_mods_toml)
    IN  IF \E i \in 1..Len(entries) : hit(i)
        THEN CHOOSE i \in 1..Len(entries) : hit(i) /\ \A j \in 1..(i - 1) : ~hit(j)
        ELSE 0

\* the fallback record of read_metadata
FallbackMeta(jar) == [loader |-> None, id |-> None, name |-> Stem(jar)]

\* read_metadata(jar): [meta, error]
read_metadata(jar) ==
    IF ~jar.readable THEN [meta |-> FallbackMeta(jar), error |-> ERR_BAD_ZIP]
    ELSE LET i == FirstManifest(jar.entries) IN
         IF i = 0 THEN [meta |-> FallbackMeta(jar), error |-> ERR_NO_MANIFEST]
         ELSE IF EndsWith(jar.entries[i].filename, S_fabric_mod_json)
         THEN LET r == parse_fabric(jar.entries[i].json, Stem(jar)) IN
              IF r.exc # None THEN [meta |-> FallbackMeta(jar), error |-> r.exc]
              ELSE [meta |-> r.ret,
                    error |-> IF IsNoMeta(r.ret) THEN ERR_FABRIC ELSE None]
         ELSE [meta |-> parse_forge(jar.entries[i].text, Stem(jar)), error |-> None]

\* classify(meta)
classify(meta) ==
    IF IsNoMeta(meta) THEN CatFail
    ELSE IF DictGet(meta, "loader", None) = S_fabric
    THEN IF DictGet(meta, "env", None) = S_client THEN CatClient ELSE CatServer
    ELSE IF DictGet(meta, "loader", None) = S_forge
    THEN IF DictGet(meta, "client_only", FALSE) THEN CatClient ELSE CatServer
    ELSE IF DictGet(meta, "loader", None) = None THEN CatFail
    ELSE CatServer

----------------------------------------------------------------------------
(* Inputs of the reader and the classifier *)

MaxTokens == 3

S_ExampleMod == <<"E","x","a","m","p","l","e"," ","M","o","d">>
S_examplemod == <<"e","x","a","m","p","l","e","m","o","d">>
S_icon_png == <<"i","c","o","n",".","p","n","g">>
S_quilt_mod_json == <<"q","u","i","l","t",".","m","o","d",".","j","s","o","n">>
S_META_INF_mods_toml == <<"M","E","T","A","-","I","N","F","/","m","o","d","s",".","t","o","m","l">>
S_A == <<"A">>
S_a == <<"a">>
S_b == <<"b">>

\* the words forge manifests are made of
Tokens == {S_clientOnly, <<"c","l","i","e","n","t","o","n","l","y">>, S_true, <<"T","R","U","E">>,
           <<"f","a","l","s","e">>, <<"=">>, <<"#">>, <<"\n">>}

\* the texts of at most n tokens
RECURSIVE Texts(_)
Texts(n) ==
    IF n = 0 THEN {<<>>}
    ELSE LET shorter == Texts(n - 1)
         IN  shorter \cup {t \o tok : t \in shorter, tok \in Tokens}

JsonInvalid == [kind |-> "invalid", obj |-> [name |-> None]]
JsonArray == [kind |-> "array", obj |-> [name |-> None]]

\* the members a fabric.mod.json may carry, each with the values tried
MemberValues(k) ==
    CASE k = "environment" -> {S_client, S_Client, S_server, S_star, None}
      [] k = "id" -> {S_examplemod}
      [] k = "name" -> {S_ExampleMod, <<>>}
      [] k = "icon" -> {S_icon_png}

AllMemberValues == UNION {MemberValues(k) : k \in {"environment", "id", "name", "icon"}}

JsonObjects ==
    UNION { {[kind |-> "object", obj |-> f] :
                f \in {g \in [D -> AllMemberValues] : \A k \in D : g[k] \in MemberValues(k)}} :
            D \in (SUBSET {"environment", "id", "name", "icon"}) \ {{}} }

FabricEntries ==
    {[filename |-> S_fabric_mod_json, text |-> <<>>, json |-> j] :
        j \in JsonObjects \cup {JsonInvalid, JsonArray}}

ForgeEntries ==
    {[filename |-> S_META_INF_mods_toml, text |-> t, json |-> JsonInvalid] :
        t \in Texts(MaxTokens)}

OtherEntry == [filename |-> S_quilt_mod_json, text |-> <<>>, json |-> JsonInvalid]

\* representatives used where two manifests meet in one archive
FabricClientEntry ==
    [filename |-> S_fabric_mod_json, text |-> <<>>,
     json |-> [kind |-> "object",
               obj |-> [id |-> S_examplemod, name |-> S_ExampleMod,
                        environment |-> S_client]]]
ForgeClientEntry ==
    [filename |-> S_META_INF_mods_toml,
     text |-> S_clientOnly \o <<"=">> \o S_true, json |-> JsonInvalid]
ForgeServerEntry ==
    [filename |-> S_META_INF_mods_toml, text |-> <<>>, json |-> JsonInvalid]

ClassifyJars ==
    {[stem |-> S_a, readable |-> FALSE, entries |-> <<>>],
     [stem |-> S_a, readable |-> TRUE, entries |-> <<>>],
     [stem |-> S_a, readable |-> TRUE, entries |-> <<OtherEntry>>]}
    \cup {[stem |-> S_a, readable |-> TRUE, entries |-> <<e>>] :
             e \in FabricEntries \cup ForgeEntries}
    \cup {[stem |-> S_a, readable |-> TRUE, entries |-> es] :
             es \in {<<OtherEntry, FabricClientEntry>>, <<OtherEntry, ForgeClientEntry>>,
                     <<FabricClientEntry, ForgeServerEntry>>,
                     <<ForgeServerEntry, FabricClientEntry>>}}

NoJar == [stem |-> <<>>, readable |-> FALSE, entries |-> <<>>]

\* records handed to classify by a caller other than read_metadata
DirectMetas ==
    {MetaNone}
    \cup {[loader |-> l, id |-> None, name |-> S_a] : l \in {None, S_quilt, S_fabric, S_forge}}
    \cup {[loader |-> l, id |-> None, name |-> S_a, env |-> e, icon |-> None] :
             l \in {S_fabric, S_quilt, None}, e \in {S_client, S_server, S_star}}
    \cup {[loader |-> l, client_only |-> c, id |-> None, name |-> S_a, icon |-> None] :
             l \in {S_forge, S_quilt, None}, c \in BOOLEAN}

----------------------------------------------------------------------------
(* Harness of read_metadata and classify *)

CIdle ==
    /\ c_pc = "off"
    /\ c_jar = NoJar
    /\ c_meta = MetaNone
    /\ c_error = None
    /\ c_category = "none"

CInit ==
    /\ c_error = None
    /\ c_category = "none"
    /\ \/ /\ c_pc = "read"
          /\ c_jar \in ClassifyJars
          /\ c_meta = MetaNone
       \/ /\ c_pc = "classify"
          /\ c_jar = NoJar
          /\ c_meta \in DirectMetas

\* meta, error = read_metadata(jar)
CReadMetadata ==
    /\ c_pc = "read"
    /\ c_meta' = read_metadata(c_jar).meta
    /\ c_error' = read_metadata(c_jar).error
    /\ c_pc' = "classify"
    /\ UNCHANGED <<c_jar, c_category, mvars, ovars>>

\* category = classify(meta)
CClassify ==
    /\ c_pc = "classify"
    /\ c_category' = classify(c_meta)
    /\ c_pc' = "done"
    /\ UNCHANGED <<c_jar, c_meta, c_error, mvars, ovars>>

----------------------------------------------------------------------------
(* Catalog matcher *)

\* the +100 of an exact slug match, the weight of the title similarity and
\* the acceptance threshold
SLUG_BONUS == 100
NAME_WEIGHT == 50
MIN_SCORE == 60

\* exact fractions [n, d], d > 0, for the float scores
Frac(n, d) == [n |-> n, d |-> d]
FracAdd(x, y) == Frac(x.n * y.d + y.n * x.d, x.d * y.d)
FracTimes(x, k) == Frac(x.n * k, x.d)
FracGreater(x, y) == x.n * y.d > y.n * x.d
FracAtLeast(x, k) == x.n >= k * x.d

\* the length of the common run of a from i and b from j
RECURSIVE RunLength(_, _, _, _)
RunLength(a, b, i, j) ==
    IF i > Len(a) \/ j > Len(b) \/ a[i] # b[j] THEN 0
    ELSE 1 + RunLength(a, b, i + 1, j + 1)

\* SequenceMatcher.find_longest_match over all of a and b: the longest block,
\* the one starting earliest in a, then earliest in b
LongestMatch(a, b) ==
    LET lengths == {RunLength(a, b, i, j) : i \in 1..Len(a), j \in 1..Len(b)}
        k == IF lengths = {} THEN 0
             ELSE CHOOSE x \in lengths : \A y \in lengths : x >= y
        starts == {i \in 1..Len(a) : \E j \in 1..Len(b) : RunLength(a, b, i, j) = k}
        i == CHOOSE x \in starts : \A y \in starts : x <= y
        ends == {j \in 1..Len(b) : RunLength(a, b, i, j) = k}
        j == CHOOSE x \in ends : \A y \in ends : x <= y
    IN  IF k = 0 THEN [i |-> 1, j |-> 1, k |-> 0]
        ELSE [i |-> i, j |-> j, k |-> k]

\* the sum of the sizes of SequenceMatcher.get_matching_blocks()
RECURSIVE Matches(_, _)
Matches(a, b) ==
    LET m == LongestMatch(a, b)
    IN  IF m.k = 0 THEN 0
        ELSE m.k + Matches(SubSeq(a, 1, m.i - 1), SubSeq(b, 1, m.j - 1))
                 + Matches(SubSeq(a, m.i + m.k, Len(a)), SubSeq(b, m.j + m.k, Len(b)))

\* SequenceMatcher(None, a, b).ratio()
Ratio(a, b) ==
    IF Len(a) + Len(b) = 0 THEN Frac(1, 1)
    ELSE Frac(2 * Matches(a, b), Len(a) + Len(b))

\* similarity(a, b)
similarity(a, b) == Ratio(Lower(a), Lower(b))

\* a URL is its fixed prefix and the text formatted into it
Url(base, path) == [base |-> base, path |-> path]
LinkNone == Url("None", <<>>)

\* curseforge_link(name), mcmod_link(name)
curseforge_link(name) == Url("https://www.curseforge.com/minecraft/mc-mods/", name)
mcmod_link(name) == Url("https://search.mcmod.cn/s?key=", name)


\* mutant: an exact slug match earns no more than a title match
SlugScore_Half(meta, h) ==
    IF Truthy(DictGet(meta, "id", None)) /\ DictGet(h, "slug", None) = meta["id"]
    THEN NAME_WEIGHT ELSE 0

\* the bonus of hit h for its slug
SlugScore(meta, h) ==
    IF Truthy(DictGet(meta, "id", None)) /\ DictGet(h, "slug", None) = meta["id"]
    THEN SLUG_BONUS ELSE 0

\* the score the loop of modrinth_link gives hit h
HitScore(meta, h) ==
    FracAdd(Frac(SlugScore(meta, h), 1),
            FracTimes(similarity(DictGet(meta, "name", <<>>), DictGet(h, "title", <<>>)),
                      NAME_WEIGHT))

\* score > best_score
Beats(score, best_score) == FracGreater(score, best_score)

\* the loop over hits from position i on: [best, best_score], best an index
\* into hits or 0 for None
RECURSIVE ScanHits(_, _, _, _, _)
ScanHits(meta, hits, i, best, best_score) ==
    IF i > Len(hits) THEN [best |-> best, best_score |-> best_score]
    ELSE LET score == HitScore(meta, hits[i])
         IN  IF Beats(score, best_score)
             THEN ScanHits(meta, hits, i + 1, i, score)
             ELSE ScanHits(meta, hits, i + 1, best, best_score)


\* mutant: a lower acceptance threshold
Accepts_Low(best_score) == FracAtLeast(best_score, NAME_WEIGHT)

\* best_score >= 60
Accepts(best_score) == FracAtLeast(best_score, MIN_SCORE)

\* query = meta.get("id") or meta.get("name")
Query(meta) ==
    IF Truthy(DictGet(meta, "id", None)) THEN meta["id"] ELSE DictGet(meta, "name", None)

(* modrinth_link(meta, session), given the outcome resp of session.get:     *)
(* [raised, status, hits], raised when the request or r.json() ends by a    *)
(* timeout, a transport error or a cancellation.                            *)
modrinth_link(meta, resp) ==
    IF ~Truthy(Query(meta)) THEN LinkNone
    ELSE IF resp.raised THEN LinkNone
    ELSE IF resp.status # 200 THEN LinkNone
    ELSE LET r == ScanHits(meta, resp.hits, 1, 0, Frac(0, 1))
         IN  IF Accepts(r.best_score) /\ "slug" \in DOMAIN resp.hits[r.best]
             THEN Url("https://modrinth.com/mod/", resp.hits[r.best]["slug"])
             ELSE LinkNone   \* also the KeyError of best['slug'], caught by except

----------------------------------------------------------------------------
(* Inputs and harness of modrinth_link *)

MaxHits == 2

S_ab == <<"a","b">>
S_Ab == <<"A","b">>
S_ba == <<"b","a">>
S_cd == <<"c","d">>

MatchMetas ==
    {[loader |-> S_fabric, id |-> i, name |-> n, env |-> S_star, icon |-> None] :
        i \in {None, <<>>, S_ab, S_cd}, n \in {S_ab, S_Ab, S_b}}
    \cup {[loader |-> S_forge, client_only |-> FALSE, id |-> None, name |-> n, icon |-> None] :
        n \in {S_ab, S_b}}

\* the results a search response may list
Hits ==
    {[slug |-> s, title |-> ti] : s \in {S_ab, S_cd}, ti \in {<<>>, S_ab, S_ba, S_b}}
    \cup {[title |-> ti] : ti \in {S_ab, S_b}}
    \cup {[slug |-> s] : s \in {S_ab, S_cd}}

\* the sequences of at most n hits
RECURSIVE HitLists(_)
HitLists(n) ==
    IF n = 0 THEN {<<>>}
    ELSE LET shorter == HitLists(n - 1)
         IN  shorter \cup {Append(l, h) : l \in shorter, h \in Hits}

Raised == [raised |-> TRUE, status |-> 0, hits |-> <<>>]
Responded(status, hits) == [raised |-> FALSE, status |-> status, hits |-> hits]

MatchResponses ==
    {Raised, Responded(404, <<>>)} \cup {Responded(200, l) : l \in HitLists(MaxHits)}

MIdle ==
    /\ m_pc = "off"
    /\ m_meta = MetaNone
    /\ m_resp = Raised
    /\ m_link = LinkNone

MInit ==
    /\ m_pc = "call"
    /\ m_meta \in MatchMetas
    /\ m_resp = Raised
    /\ m_link = LinkNone

\* session.get(url, params=params, timeout=5) ends one way or the other
MRespond ==
    /\ m_pc = "call"
    /\ m_resp' \in MatchResponses
    /\ m_pc' = "responded"
    /\ UNCHANGED <<m_meta, m_link, cvars, ovars>>

\* mr_link = await modrinth_link(meta, session)
MReturn ==
    /\ m_pc = "responded"
    /\ m_link' = modrinth_link(m_meta, m_resp)
    /\ m_pc' = "done"
    /\ UNCHANGED <<m_meta, m_resp, cvars, ovars>>

----------------------------------------------------------------------------
(* ModAnalyzerThread: data *)

MaxJars == 3
MaxThreads == 2
MaxFaults == 1

\* the archives a mods directory may hold, in the order the directory lists
\* them: two forge mods whose file names are equal but for case, between
\* them an archive whose fabric.mod.json is no JSON, and a client-only
\* fabric mod
S_c == <<"c">>
Archives ==
    <<[stem |-> S_A, readable |-> TRUE, entries |-> <<ForgeServerEntry>>],
      [stem |-> S_c, readable |-> TRUE,
       entries |-> <<[filename |-> S_fabric_mod_json, text |-> <<>>, json |-> JsonInvalid]>>],
      [stem |-> S_a, readable |-> TRUE, entries |-> <<ForgeServerEntry>>],
      [stem |-> S_b, readable |-> TRUE, entries |-> <<FabricClientEntry>>]>>

\* the archives at the positions present, from position k on
RECURSIVE Pick(_, _)
Pick(k, present) ==
    IF k > Len(Archives) THEN <<>>
    ELSE (IF k \in present THEN <<Archives[k]>> ELSE <<>>) \o Pick(k + 1, present)

\* the listings of at most n archives
Listings(n) ==
    {Pick(1, present) : present \in {P \in SUBSET (1..Len(Archives)) : Cardinality(P) <= n}}

\* what the catalog may answer to a task of the run
RunResponses ==
    {Raised, Responded(200, <<>>),
     Responded(200, <<[slug |-> S_examplemod, title |-> S_ExampleMod]>>)}

\* where a task may raise out of its try block: nowhere, before line 213, or
\* at line 224 (after the append)
FaultPoints == {"none", "before_append", "after_append"}

\* the local variables of process_jar_with_sem for jar, given mr_link
TaskMeta(jar) == read_metadata(jar).meta
TaskError(jar) == read_metadata(jar).error
TaskCategory(jar) == classify(TaskMeta(jar))
NameForLink(jar) ==
    IF ~IsNoMeta(TaskMeta(jar)) THEN DictGet(TaskMeta(jar), "name", None) ELSE Stem(jar)

\* extract_icon_from_jar(jar, meta["icon"]) finds the entry
HasIconData(jar) ==
    /\ ~IsNoMeta(TaskMeta(jar))
    /\ Truthy(DictGet(TaskMeta(jar), "icon", None))
    /\ \E k \in 1..Len(jar.entries) : jar.entries[k].filename = TaskMeta(jar)["icon"]

\* the name under which a record is listed
RecordName(jar) == JarName(jar)

\* mod_info
ModInfo(jar, mr_link) ==
    [name |-> RecordName(jar),
     category |-> TaskCategory(jar),
     links |-> [curseforge |-> curseforge_link(NameForLink(jar)),
                modrinth |-> mr_link,
                mcmod |-> mcmod_link(NameForLink(jar))],
     error |-> TaskError(jar),
     icon_data |-> HasIconData(jar)]

\* the emissions of log_signal
StatusLine(jar) ==
    [kind |-> "status", name |-> JarName(jar), category |-> TaskCategory(jar),
     error |-> TaskError(jar),
     color |-> IF TaskCategory(jar) = CatServer THEN "green"
               ELSE IF TaskCategory(jar) = CatClient THEN "orange" ELSE "red"]
CopyFailedLine(jar) ==
    [kind |-> "copy failed", name |-> JarName(jar), category |-> TaskCategory(jar),
     error |-> None, color |-> "red"]
NoJarsLine ==
    [kind |-> "no jars", name |-> <<>>, category |-> "none", error |-> None, color |-> "red"]

\* key=lambda x: x["name"].lower()
SortKey(m) == Lower(m.name)

\* sorted(ms, key=...): stable, each element goes behind the ones it does not
\* precede
RECURSIVE SortedByName(_)
SortedByName(ms) ==
    IF ms = <<>> THEN <<>>
    ELSE LET front == SortedByName(SubSeq(ms, 1, Len(ms) - 1))
             m == ms[Len(ms)]
             behind == {k \in 1..Len(front) : ~StrLess(SortKey(m), SortKey(front[k]))}
             at == Cardinality(behind)
         IN  SubSeq(front, 1, at) \o <<m>> \o SubSeq(front, at + 1, Len(front))

\* sections[sec] of the collected records
Section(ms, sec) == SelectSeq(ms, LAMBDA m : m.category = sec)

\* the lines written under each section header
ReportOf(ms) ==
    [written |-> TRUE,
     buckets |-> [sec \in Categories |-> SortedByName(Section(ms, sec))]]
NoReport == [written |-> FALSE, buckets |-> [sec \in Categories |-> <<>>]]

----------------------------------------------------------------------------
(* asyncio.Semaphore (CPython 3.11 and later), on [value, waiters, tpc]     *)
(* tpc[i]: "new" created by gather, first step not yet run; "waiting" in    *)
(* acquire, future pending; "woken" future set, slot handed over, step not  *)
(* yet run; "remote" suspended in session.get inside the guarded section;   *)
(* "done" returned; "failed" raised; "cancelled"; and, after asyncio.run    *)
(* cancelled what was left, "waiting_c", "woken_c", "remote_c": cancel      *)
(* requested, step not yet run.                                             *)

SemState == [value |-> sem_value, waiters |-> waiters, tpc |-> tpc]

\* the waiters whose future is still pending
Pending(s) == {k \in 1..Len(s.waiters) : s.tpc[s.waiters[k]] = "waiting"}

\* Semaphore._wake_up_next
WakeUpNext(s) ==
    IF Pending(s) = {} THEN s
    ELSE LET k == CHOOSE x \in Pending(s) : \A y \in Pending(s) : x <= y
         IN  [s EXCEPT !.value = @ - 1, !.tpc[s.waiters[k]] = "woken"]

\* Semaphore.release
Release(s) == WakeUpNext([s EXCEPT !.value = @ + 1])


\* mutant: acquire never waits
Locked_Never(s) == FALSE

\* Semaphore.locked: no slot left, or a waiter whose future is not cancelled
Locked(s) ==
    \/ s.value = 0
    \/ \E k \in 1..Len(s.waiters) : s.tpc[s.waiters[k]] \in {"waiting", "woken", "woken_c"}

\* self._waiters.remove(fut)
RemoveWaiter(s, i) == [s EXCEPT !.waiters = SelectSeq(@, LAMBDA w : w # i)]

\* the tasks holding a slot: inside the guarded section, or handed the slot
Holders == {i \in DOMAIN tpc : tpc[i] \in {"remote", "remote_c", "woken", "woken_c"}}
InSection == {i \in DOMAIN tpc : tpc[i] \in {"remote", "remote_c"}}

----------------------------------------------------------------------------
(* ModAnalyzerThread: steps *)

NoNew == \A i \in DOMAIN tpc : tpc[i] # "new"


\* mutant: the empty listing is not noticed
NoJars_Off(total) == total < 0

\* total == 0
NoJars(total) == total = 0


\* mutant: gather returns with the first task that returns
GatherReturns_Any == \E i \in DOMAIN tpc : tpc[i] = "done"

\* asyncio.gather(*tasks) has its result: every task returned
GatherReturns == \A i \in DOMAIN tpc : tpc[i] = "done"

\* asyncio.gather(*tasks) raises: some task raised
GatherRaises == \E i \in DOMAIN tpc : tpc[i] = "failed"

OInit ==
    /\ jars \in Listings(MaxJars)
    /\ max_threads \in 1..MaxThreads
    /\ gen_log \in BOOLEAN
    /\ gen_folder \in BOOLEAN
    /\ orch = "idle"
    /\ sem_value = 0
    /\ waiters = <<>>
    /\ tpc = <<>>
    /\ all_mods = <<>>
    /\ log = <<>>
    /\ mod_out = <<>>
    /\ progress = <<>>
    /\ copied = {}
    /\ report = NoReport
    /\ finished = FALSE
    /\ faults = 0

OIdle ==
    /\ jars = <<>>
    /\ max_threads = 1
    /\ gen_log = FALSE
    /\ gen_folder = FALSE
    /\ orch = "off"
    /\ sem_value = 0
    /\ waiters = <<>>
    /\ tpc = <<>>
    /\ all_mods = <<>>
    /\ log = <<>>
    /\ mod_out = <<>>
    /\ progress = <<>>
    /\ copied = {}
    /\ report = NoReport
    /\ finished = FALSE
    /\ faults = 0

\* analyze_mods, lines 142-146: nothing listed
AnalyzeNoJars ==
    /\ orch = "idle"
    /\ NoJars(Len(jars))
    /\ log' = Append(log, NoJarsLine)
    /\ orch' = "done"
    /\ UNCHANGED <<cvars, mvars, jars, max_threads, gen_log, gen_folder, sem_value, waiters, tpc,
                   all_mods, mod_out, progress, copied, report, finished, faults>>

\* analyze_mods, lines 142-164: the semaphore, one task per jar, await gather
AnalyzeDispatch ==
    /\ orch = "idle"
    /\ ~NoJars(Len(jars))
    /\ sem_value' = max_threads
    /\ waiters' = <<>>
    /\ tpc' = [i \in 1..Len(jars) |-> "new"]
    /\ orch' = "gather"
    /\ UNCHANGED <<cvars, mvars, jars, max_threads, gen_log, gen_folder, all_mods, log, mod_out,
                   progress, copied, report, finished, faults>>

(* process_jar_with_sem, lines 209-237, for task i holding its slot in      *)
(* semaphore state s: the rest of the try block, the finally block and the  *)
(* release of the slot when the async with block is left.                   *)
Finish(i, s, mr_link, fault, copy_ok) ==
    LET jar == jars[i]
        mod_info == ModInfo(jar, mr_link)
        appended == fault # "before_append"
        completed == fault = "none"
        mods == IF appended THEN Append(all_mods, mod_info) ELSE all_mods
        after == Release([s EXCEPT !.tpc[i] = IF completed THEN "done" ELSE "failed"])
    IN  /\ fault # "none" => faults < MaxFaults
        /\ all_mods' = mods
        /\ log' = log \o (IF appended THEN <<StatusLine(jar)>> ELSE <<>>)
                      \o (IF completed /\ gen_folder /\ ~copy_ok
                          THEN <<CopyFailedLine(jar)>> ELSE <<>>)
        /\ mod_out' = IF completed THEN Append(mod_out, mod_info) ELSE mod_out
        /\ copied' = IF completed /\ gen_folder /\ copy_ok
                     THEN copied \cup {<<mod_info.category, JarName(jar)>>} ELSE copied
        /\ progress' = Append(progress, <<Len(mods), Len(jars)>>)
        /\ faults' = IF completed THEN faults ELSE faults + 1
        /\ sem_value' = after.value
        /\ waiters' = after.waiters
        /\ tpc' = after.tpc
        /\ UNCHANGED <<cvars, mvars, jars, max_threads, gen_log, gen_folder, orch, report, finished>>

\* whether shutil.copy2 succeeds is asked only where it is called
CopyOutcomes(fault) == IF fault = "none" /\ gen_folder THEN BOOLEAN ELSE {TRUE}

(* process_jar_with_sem, lines 202-208, for task i that has just got its    *)
(* slot: up to the suspension in session.get, or to the end when            *)
(* modrinth_link is not awaited or sends no request.                        *)
EnterBody(i, s) ==
    LET meta == TaskMeta(jars[i])
    IN  IF IsNoMeta(meta) \/ ~Truthy(Query(meta))
        THEN \E fault \in FaultPoints : \E copy_ok \in CopyOutcomes(fault) :
                 Finish(i, s, LinkNone, fault, copy_ok)
        ELSE \/ /\ sem_value' = s.value
                /\ waiters' = s.waiters
                /\ tpc' = [s.tpc EXCEPT ![i] = "remote"]
                /\ UNCHANGED <<cvars, mvars, jars, max_threads, gen_log, gen_folder, orch, all_mods, log,
                               mod_out, progress, copied, report, finished, faults>>
             \/ Finish(i, s, LinkNone, "before_append", TRUE)

\* the first step of task i: async with sem, then the body.  The loop runs
\* the first steps in the order gather created the tasks.
TaskStart(i) ==
    /\ orch = "gather"
    /\ tpc[i] = "new"
    /\ \A j \in 1..(i - 1) : tpc[j] # "new"
    /\ IF ~Locked(SemState)
       THEN EnterBody(i, [SemState EXCEPT !.value = @ - 1])
       ELSE /\ waiters' = Append(waiters, i)
            /\ tpc' = [tpc EXCEPT ![i] = "waiting"]
            /\ UNCHANGED <<cvars, mvars, jars, max_threads, gen_log, gen_folder, orch, sem_value,
                           all_mods, log, mod_out, progress, copied, report, finished,
                           faults>>

\* task i resumes in Semaphore.acquire with its future set, then the body
TaskResume(i) ==
    /\ orch \in {"gather", "raised"}
    /\ tpc[i] = "woken"
    /\ NoNew
    /\ LET s1 == RemoveWaiter(SemState, i)
           s2 == IF s1.value > 0 THEN WakeUpNext(s1) ELSE s1
       IN  EnterBody(i, s2)

\* session.get of task i ends: the rest of modrinth_link and of the body
TaskReturn(i) ==
    /\ orch \in {"gather", "raised"}
    /\ tpc[i] = "remote"
    /\ NoNew
    /\ \E resp \in RunResponses : \E fault \in FaultPoints :
       \E copy_ok \in CopyOutcomes(fault) :
           Finish(i, SemState, modrinth_link(TaskMeta(jars[i]), resp), fault, copy_ok)

\* analyze_mods, lines 166-198: gather returned, the log file, finished_dir
Finalize ==
    /\ orch = "gather"
    /\ NoNew
    /\ GatherReturns
    /\ report' = IF gen_log THEN ReportOf(all_mods) ELSE report
    /\ finished' = TRUE
    /\ orch' = "done"
    /\ UNCHANGED <<cvars, mvars, jars, max_threads, gen_log, gen_folder, sem_value, waiters, tpc,
                   all_mods, log, mod_out, progress, copied, faults>>

\* analyze_mods, line 164: gather raises the first exception of a task and
\* analyze_mods ends by it
Abort ==
    /\ orch = "gather"
    /\ NoNew
    /\ GatherRaises
    /\ orch' = "raised"
    /\ UNCHANGED <<cvars, mvars, jars, max_threads, gen_log, gen_folder, sem_value, waiters, tpc,
                   all_mods, log, mod_out, progress, copied, report, finished, faults>>

\* run, line 139: asyncio.run cancels the tasks that are left
CancelAll ==
    /\ orch = "raised"
    /\ tpc' = [i \in DOMAIN tpc |->
                 IF tpc[i] = "waiting" THEN "waiting_c"
                 ELSE IF tpc[i] = "woken" THEN "woken_c"
                 ELSE IF tpc[i] = "remote" THEN "remote_c"
                 ELSE tpc[i]]
    /\ orch' = "aborted"
    /\ UNCHANGED <<cvars, mvars, jars, max_threads, gen_log, gen_folder, sem_value, waiters,
                   all_mods, log, mod_out, progress, copied, report, finished, faults>>

\* CancelledError in Semaphore.acquire, the future cancelled
CancelWaiting(i) ==
    /\ orch = "aborted"
    /\ tpc[i] = "waiting_c"
    /\ waiters' = RemoveWaiter(SemState, i).waiters
    /\ tpc' = [tpc EXCEPT ![i] = "cancelled"]
    /\ UNCHANGED <<cvars, mvars, jars, max_threads, gen_log, gen_folder, orch, sem_value,
                   all_mods, log, mod_out, progress, copied, report, finished, faults>>

\* CancelledError in Semaphore.acquire, the future already set: the slot
\* goes back
CancelWoken(i) ==
    /\ orch = "aborted"
    /\ tpc[i] = "woken_c"
    /\ LET s1 == RemoveWaiter(SemState, i)
           s2 == WakeUpNext([s1 EXCEPT !.value = @ + 1, !.tpc[i] = "cancelled"])
       IN  /\ sem_value' = s2.value
           /\ waiters' = s2.waiters
           /\ tpc' = s2.tpc
    /\ UNCHANGED <<cvars, mvars, jars, max_threads, gen_log, gen_folder, orch,
                   all_mods, log, mod_out, progress, copied, report, finished, faults>>

\* CancelledError in session.get: the bare except of modrinth_link takes it,
\* the body goes on without a link
CancelRemote(i) ==
    /\ orch = "aborted"
    /\ tpc[i] = "remote_c"
    /\ \E fault \in FaultPoints : \E copy_ok \in CopyOutcomes(fault) :
           Finish(i, SemState, modrinth_link(TaskMeta(jars[i]), Raised), fault, copy_ok)

----------------------------------------------------------------------------
(* Specifications *)

ONext ==
    \/ AnalyzeNoJars
    \/ AnalyzeDispatch
    \/ \E i \in DOMAIN tpc : TaskStart(i)
    \/ \E i \in DOMAIN tpc : TaskResume(i)
    \/ \E i \in DOMAIN tpc : TaskReturn(i)
    \/ Finalize
    \/ Abort
    \/ CancelAll
    \/ \E i \in DOMAIN tpc : CancelWaiting(i)
    \/ \E i \in DOMAIN tpc : CancelWoken(i)
    \/ \E i \in DOMAIN tpc : CancelRemote(i)

Init == OInit /\ CIdle /\ MIdle
Next == ONext
Spec == Init /\ [][Next]_vars

\* the event loop runs every callback that is ready, and session.get ends by
\* its answer or by its timeout (timeout=5): no step that can be taken is
\* put off for ever
SpecFair == Spec /\ WF_vars(Next)

InitClassify == CInit /\ MIdle /\ OIdle
NextClassify == CReadMetadata \/ CClassify
SpecClassify == InitClassify /\ [][NextClassify]_vars

InitMatch == MInit /\ CIdle /\ OIdle
NextMatch == MRespond \/ MReturn
SpecMatch == InitMatch /\ [][NextMatch]_vars

----------------------------------------------------------------------------
(* Claims *)

\* the run and all its tasks have ended
Settled ==
    /\ orch \in {"done", "aborted"}
    /\ \A i \in DOMAIN tpc : tpc[i] \in {"done", "failed", "cancelled"}

\* the names listed in the written report
ReportedNames ==
    {report.buckets[sec][k].name : <<sec, k>> \in
        {p \in Categories \X (1..Len(all_mods)) : p[2] <= Len(report.buckets[p[1]])}}

\* C1: with worker budget N the tasks holding a slot (inside the guarded
\* section, the remote call included, or handed the slot by a release) are
\* never more than N, whatever the interleaving.
C1_SlotBound == Cardinality(Holders) <= max_threads

\* C1 witness: more archives than slots, every slot held by a task suspended
\* in its remote call, another task waiting.
C1_Witness ==
    /\ Len(jars) > max_threads
    /\ Cardinality(InSection) = max_threads
    /\ \E i \in DOMAIN tpc : tpc[i] = "waiting"

\* C2 (as claimed): when exactly one of several tasks raised and everything
\* has ended, the run was finalized (finished_dir emitted) and, the log file
\* being asked for, the report lists every other archive.
C2_SiblingsReported ==
    (Settled /\ faults = 1 /\ Len(jars) >= 2) =>
        /\ finished
        /\ gen_log =>
              /\ report.written
              /\ \A i \in DOMAIN tpc :
                    tpc[i] # "failed" => RecordName(jars[i]) \in ReportedNames

\* the collected records in the order the tasks were dispatched
InDispatchOrder ==
    LET present == SelectSeq([i \in 1..Len(jars) |-> i],
                             LAMBDA i : \E k \in 1..Len(all_mods) :
                                           all_mods[k].name = RecordName(jars[i]))
    IN  [n \in 1..Len(present) |->
            all_mods[CHOOSE k \in 1..Len(all_mods) :
                        all_mods[k].name = RecordName(jars[present[n]])]]

\* C3 (as claimed): the written report is the one the same records give when
\* the tasks complete in dispatch order: the order of each bucket does not
\* depend on the order of completion.
C3_ReportOrderFixed ==
    (orch = "done" /\ report.written) => report = ReportOf(InDispatchOrder)

\* C4: with an empty listing the run emits the one "no jars" message and
\* ends: no task, no slot, no record, no report, no finished signal.
C4_EmptyListing ==
    (jars = <<>> /\ orch # "idle") =>
        /\ orch = "done"
        /\ log = <<NoJarsLine>>
        /\ tpc = <<>>
        /\ sem_value = 0
        /\ waiters = <<>>
        /\ all_mods = <<>>
        /\ mod_out = <<>>
        /\ progress = <<>>
        /\ copied = {}
        /\ report = NoReport
        /\ ~finished

\* C4 witness: the run over an empty directory has ended.
C4_Witness == jars = <<>> /\ orch = "done" /\ Len(log) = 1

\* the loader of the classified record
CLoader == IF IsNoMeta(c_meta) THEN None ELSE DictGet(c_meta, "loader", None)

\* C5 (as claimed): classify gives Unparseable exactly when there is no
\* metadata or the loader is neither fabric nor forge.
C5_UnparseableIff ==
    c_pc = "done" =>
        (c_category = CatFail <=> (IsNoMeta(c_meta) \/ CLoader \notin {S_fabric, S_forge}))

\* the manifest entry read_metadata took the record from
CManifest == c_jar.entries[FirstManifest(c_jar.entries)]

\* every spelling of "true"
TrueSpellings ==
    {<<t, r, u, e>> : t \in {"t", "T"}, r \in {"r", "R"}, u \in {"u", "U"}, e \in {"e", "E"}}

\* some stretch of text without a line break holds clientOnly and a "true"
SomeLineSaysClientOnly(text) ==
    \E i \in 1..Len(text) : \E j \in i..Len(text) :
        LET part == SubSeq(text, i, j)
        IN  /\ \A k \in 1..Len(part) : part[k] \notin LineBreaks
            /\ Contains(part, S_clientOnly)
            /\ \E w \in TrueSpellings : Contains(part, w)

\* what the claim expects to be client-only
CExpectedClientOnly ==
    IF c_jar = NoJar
    THEN \/ CLoader = S_fabric /\ DictGet(c_meta, "env", None) = S_client
         \/ CLoader = S_forge /\ DictGet(c_meta, "client_only", FALSE)
    ELSE \/ /\ CLoader = S_fabric
            /\ DictGet(CManifest.json.obj, "environment", S_star) = S_client
         \/ /\ CLoader = S_forge
            /\ SomeLineSaysClientOnly(CManifest.text)

\* C6: a fabric or forge record is ClientOnly exactly when it is fabric with
\* environment "client" or forge with a manifest line holding clientOnly and
\* a case-insensitive "true"; otherwise it is ServerCapable.
C6_ClientOnlyExactly ==
    (c_pc = "done" /\ CLoader \in {S_fabric, S_forge}) =>
        /\ c_category = CatClient <=> CExpectedClientOnly
        /\ c_category = CatServer <=> ~CExpectedClientOnly

\* C6 witness: a forge manifest read from an archive is classified
\* client-only by a "true" that is not written in lower case.
C6_Witness ==
    /\ c_pc = "done"
    /\ c_jar # NoJar
    /\ CLoader = S_forge
    /\ c_category = CatClient
    /\ ~Contains(CManifest.text, S_true)

\* the hits of a successful response
MHits == IF ~m_resp.raised /\ m_resp.status = 200 THEN m_resp.hits ELSE <<>>

\* the positions of the hits whose slug is the identifier of the metadata
MSlugMatches ==
    {k \in 1..Len(MHits) :
        /\ Truthy(DictGet(m_meta, "id", None))
        /\ DictGet(MHits[k], "slug", None) = m_meta["id"]}

\* C7: when a successful response lists a hit whose slug is the identifier,
\* that hit scores at least 100, a link is returned, and it is the link of
\* the identifier, wherever the hit stands in the list.
C7_SlugMatchLinked ==
    (m_pc = "done" /\ MSlugMatches # {}) =>
        /\ \A k \in MSlugMatches : FracAtLeast(HitScore(m_meta, MHits[k]), 100)
        /\ m_link # LinkNone
        /\ m_link = Url("https://modrinth.com/mod/", m_meta["id"])

\* C7 witness: the hit with the identifier's slug comes second, behind a hit
\* whose title is the name, and its own title has nothing of the name.
C7_Witness ==
    /\ m_pc = "done"
    /\ Len(MHits) = 2
    /\ MSlugMatches = {2}
    /\ similarity(m_meta["name"], DictGet(MHits[1], "title", <<>>)) = Frac(2, 2)
    /\ Matches(Lower(m_meta["name"]), Lower(DictGet(MHits[2], "title", <<>>))) = 0
    /\ m_link # LinkNone

\* C8: no link when there is no hit or every hit scores below 60; a link
\* returned is made of the slug of a hit of the response whose score is the
\* greatest of all and at least 60.
C8_LinkOnlyFromBestHit ==
    m_pc = "done" =>
        /\ (\A k \in 1..Len(MHits) : ~FracAtLeast(HitScore(m_meta, MHits[k]), 60))
              => m_link = LinkNone
        /\ m_link # LinkNone =>
              \E k \in 1..Len(MHits) :
                  /\ "slug" \in DOMAIN MHits[k]
                  /\ m_link = Url("https://modrinth.com/mod/", MHits[k]["slug"])
                  /\ FracAtLeast(HitScore(m_meta, MHits[k]), 60)
                  /\ \A j \in 1..Len(MHits) :
                        ~FracGreater(HitScore(m_meta, MHits[j]), HitScore(m_meta, MHits[k]))

\* C8 witness: hits whose titles are the name itself, none with the slug of
\* the identifier: the best score is 50 and no link is returned.
C8_Witness ==
    /\ m_pc = "done"
    /\ Len(MHits) = 2
    /\ MSlugMatches = {}
    /\ \E k \in 1..Len(MHits) :
          /\ "slug" \in DOMAIN MHits[k]
          /\ HitScore(m_meta, MHits[k]) = Frac(100, 2)
    /\ m_link = LinkNone

\* a fabric manifest that parses, and what the claim expects of its record
FabricParsed(jar) ==
    /\ jar.readable
    /\ FirstManifest(jar.entries) # 0
    /\ EndsWith(jar.entries[FirstManifest(jar.entries)].filename, S_fabric_mod_json)
    /\ jar.entries[FirstManifest(jar.entries)].json.kind = "object"
DisplayName(jar) ==
    LET obj == jar.entries[FirstManifest(jar.entries)].json.obj
    IN  IF Truthy(DictGet(obj, "name", None)) THEN obj["name"] ELSE Stem(jar)
EnvCategory(jar) ==
    LET obj == jar.entries[FirstManifest(jar.entries)].json.obj
    IN  IF DictGet(obj, "environment", S_star) = S_client THEN CatClient ELSE CatServer

\* C9 (as claimed): in the written report an archive whose fabric manifest
\* parses is listed under the manifest's display name, in the category of
\* its environment, with no diagnostic.
C9_ListedByDisplayName ==
    (orch = "done" /\ report.written) =>
        \A i \in 1..Len(jars) :
            FabricParsed(jars[i]) =>
                \E k \in 1..Len(report.buckets[EnvCategory(jars[i])]) :
                    /\ report.buckets[EnvCategory(jars[i])][k].name = DisplayName(jars[i])
                    /\ report.buckets[EnvCategory(jars[i])][k].error = None

\* C10: once finalization has run, every dispatched task has returned; and
\* no task having raised, the collection holds one record for each archive
\* and the report, when written, is made of exactly those.
C10_FinalizeAfterAll ==
    finished =>
        /\ \A i \in DOMAIN tpc : tpc[i] = "done"
        /\ DOMAIN tpc = 1..Len(jars)
        /\ faults = 0 =>
              /\ Len(all_mods) = Len(jars)
              /\ \A i \in 1..Len(jars) :
                    Cardinality({k \in 1..Len(all_mods) :
                                    all_mods[k].name = RecordName(jars[i])}) = 1
              /\ report.written => report = ReportOf(all_mods)

\* C10 witness: a run with more archives than slots has been finalized.
C10_Witness ==
    /\ finished
    /\ Len(jars) > max_threads
    /\ report.written

\* the steps of analyze_mods and of run, as opposed to those of the tasks
OrchestratorStep == AnalyzeNoJars \/ AnalyzeDispatch \/ Finalize \/ Abort \/ CancelAll

\* C11 (as claimed): the list of collected records and the progress counts
\* change only in a step of the orchestrator, never in a step of a task.
C11_OrchestratorSoleWriter ==
    [][(all_mods' # all_mods \/ progress' # progress) => OrchestratorStep]_vars

\* the run has been finalized, every task has returned and the semaphore is
\* whole again
DoneAllFree ==
    /\ orch = "done"
    /\ finished
    /\ \A i \in DOMAIN tpc : tpc[i] = "done"
    /\ Holders = {}
    /\ sem_value = max_threads

\* every task that holds a slot gives it back, however it ends
SlotsReleased == \A i \in 1..MaxJars : (i \in Holders) ~> (i \notin Holders)

\* a run in which no task raises is finalized with every slot free
DoneUnlessRaised == (orch = "idle" /\ Len(jars) > 0) ~> (DoneAllFree \/ faults > 0)

\* C12 (as claimed): a run with a non-empty listing eventually is finalized
\* with every task returned and every slot free: each task that was given a
\* slot has given it back and each task that waited for a slot has got one,
\* also when a task ended by a failure.
C12_EventuallyDoneAllFree == (orch = "idle" /\ Len(jars) > 0) ~> DoneAllFree

====
